---- MODULE Spec2Model ----
(***************************************************************************)
(* Model of DataPackagesService                                            *)
(* (packages/cache-service/src/data-packages/data-packages.service.ts).    *)
(*                                                                         *)
(* Three specifications share the variables below:                         *)
(*   Spec          - one direct call of a query entry point, from the call *)
(*                   to the aggregation running on the store to the        *)
(*                   promise settling, while packages are being persisted; *)
(*   SpecCache     - the two memoized queries, concurrent callers, the     *)
(*                   clock and packages being persisted meanwhile;         *)
(*   SpecBroadcast - broadcast() fanning out to the configured sinks.      *)
(***************************************************************************)
EXTENDS Integers, Sequences, FiniteSets, TLC

VARIABLES
  store,          \* the DataPackage collection, in the store's iteration order
  now,            \* Date.now()
  call,           \* the direct query call: entry point, arguments, progress
  outcome,        \* how the promise of that call settled
  cache,          \* memoize: cache[fn][key], the stored entry or NoEntry
  inflight,       \* memoize: inflight[fn][key], the running computation or NoFlight
  storeQueries,   \* storeQueries[fn][key]: store queries issued so far
  callers,        \* callers[c]: where each caller of a cached query stands
  broadcasters,   \* this.broadcasters, filled by the constructor
  bcast           \* the broadcast() call: its arguments, sink promises, own promise

vars == <<store, now, call, outcome, cache, inflight, storeQueries, callers,
          broadcasters, bcast>>

queryVars == <<call, outcome>>
cacheVars == <<cache, inflight, storeQueries, callers>>
bcastVars == <<broadcasters, bcast>>

----------------------------------------------------------------------------
(* Bounds and input domains                                                *)

MaxStore == 3
Services == {"svc1", "svc2"}
Signers == {"0xA", "0xB"}
Times == {0, 1, 2}
QueryNow == 2

\* config.maxAllowedTimestampDelay, in the model's time unit
maxAllowedTimestampDelay == 1

EMPTY_DATA_PACKAGE_RESPONSE_ERROR_CODE == "EMPTY_DATA_PACKAGE_RESPONSE_ERROR_CODE"

\* consts.ALL_FEEDS_KEY
ALL_FEEDS_KEY == "___COMBINED_DATA_PACKAGE___"

\* the error of calling a member that is no function
TypeError == "TypeError"

\* names every plain object inherits from Object.prototype
ObjectPrototypeMembers ==
  {"constructor", "__proto__", "toString", "toLocaleString", "valueOf",
   "hasOwnProperty", "isPrototypeOf", "propertyIsEnumerable",
   "__defineGetter__", "__defineSetter__", "__lookupGetter__",
   "__lookupSetter__"}

\* A submission: the received package (the feed ids of its data points and
\* its timestamp), the signer it is saved for, the signer's partition, and
\* what recoverDeserializedSignerAddress gives for it ("throws": it throws).
Submission(dataServiceId, signerAddress, feeds, t, recovered) ==
  [dataServiceId |-> dataServiceId, signerAddress |-> signerAddress,
   dataPoints |-> feeds, timestampMilliseconds |-> t, recovered |-> recovered]

\* the submissions the direct queries are checked on
Submissions ==
  {Submission("svc1", s, <<"ETH">>, t, s) : s \in Signers, t \in {1, 2}}
  \cup {Submission("svc1", s, <<"BTC">>, 2, s) : s \in Signers}
  \cup {Submission("svc1", "0xA", <<"ETH">>, 0, "0xA"),
        Submission("svc1", "0xA", <<"constructor">>, 2, "0xA"),
        Submission("svc1", "0xB", <<"__defineGetter__">>, 2, "0xB"),
        Submission("svc1", "0xB", <<"ETH", "BTC">>, 2, "throws"),
        Submission("svc2", "0xA", <<"ETH">>, 2, "0xB")}

\* isSignatureValid(receivedDataPackage, signerAddress)
isSignatureValid(recovered, signerAddress) ==
  IF recovered = "throws" THEN FALSE ELSE recovered = signerAddress

\* prepareDataPackageForSaving: the CachedDataPackage that is persisted
prepareDataPackageForSaving(receivedDataPackage, signerAddress, dataServiceId, recovered) ==
  [dataPoints |-> receivedDataPackage.dataPoints,
   timestampMilliseconds |-> receivedDataPackage.timestampMilliseconds,
   signature |-> receivedDataPackage.signature,
   dataServiceId |-> dataServiceId,
   signerAddress |-> signerAddress,
   isSignatureValid |-> isSignatureValid(recovered, signerAddress),
   dataFeedId |-> IF Len(receivedDataPackage.dataPoints) = 1
                    THEN receivedDataPackage.dataPoints[1]
                    ELSE ALL_FEEDS_KEY]

\* the document persisted for submission s; its signature n is distinct per
\* stored document
Document(s, n) ==
  prepareDataPackageForSaving(
    [dataPoints |-> s.dataPoints,
     timestampMilliseconds |-> s.timestampMilliseconds,
     signature |-> n],
    s.signerAddress, s.dataServiceId, s.recovered)

----------------------------------------------------------------------------
(* Promise outcomes, and results of synchronous code                       *)

Resolved(v) == [status |-> "resolved", value |-> v]
Rejected(code) == [status |-> "rejected", value |-> code]
NoOutcome == [status |-> "none", value |-> "none"]

Returned(v) == [threw |-> FALSE, value |-> v]
Threw(e) == [threw |-> TRUE, value |-> e]

\* a promise settles as its async function ends
Settled(result) ==
  IF result.threw THEN Rejected(result.value) ELSE Resolved(result.value)

EmptyResponse == <<>>

\* fetchedPackagesPerDataFeed[dataFeedId] on a plain object: an own list,
\* a member inherited from Object.prototype, or undefined
FetchedForDataFeed(fetched, dataFeedId) ==
  IF dataFeedId \in DOMAIN fetched
    THEN [kind |-> "list", list |-> fetched[dataFeedId]]
  ELSE IF dataFeedId \in ObjectPrototypeMembers
    THEN [kind |-> "inherited", list |-> <<>>]
  ELSE [kind |-> "undefined", list |-> <<>>]

\* if (!fetched[dataFeedId]) fetched[dataFeedId] = [];
\* fetched[dataFeedId].push(entry): an inherited member is truthy, no list
\* is created and push is no function
PushEntry(fetched, dataFeedId, entry) ==
  LET found == FetchedForDataFeed(fetched, dataFeedId)
  IN IF found.kind = "list"
       THEN Returned([fetched EXCEPT ![dataFeedId] = Append(@, entry)])
     ELSE IF found.kind = "inherited"
       THEN Threw(TypeError)
     ELSE Returned((dataFeedId :> <<entry>>) @@ fetched)

----------------------------------------------------------------------------
(* Strategy A: getDataPackagesFromDbByTimestampOrLatest                    *)

\* `timestamp ? ... : ...` -- undefined (<<>>) and 0 are both falsy
IsTruthy(timestamp) == Len(timestamp) = 1 /\ timestamp[1] # 0

\* $match of the first pipeline
MatchByTimestampOrLatest(doc, dataServiceId, timestamp, nowMs) ==
  /\ doc.dataServiceId = dataServiceId
  /\ IF IsTruthy(timestamp)
       THEN doc.timestampMilliseconds = timestamp[1]
       ELSE doc.timestampMilliseconds >= nowMs - maxAllowedTimestampDelay

\* $first: the first document of the group in pipeline order
FirstIndex(docs, signerAddress, dataFeedId) ==
  CHOOSE i \in 1..Len(docs) :
    /\ docs[i].signerAddress = signerAddress
    /\ docs[i].dataFeedId = dataFeedId
    /\ \A j \in 1..(i - 1) :
         ~(docs[j].signerAddress = signerAddress /\ docs[j].dataFeedId = dataFeedId)

\* $group by (signerAddress, dataFeedId), every field taken with $first
GroupBySignerAndFeed(docs) ==
  LET ids == {[signerAddress |-> docs[i].signerAddress,
               dataFeedId |-> docs[i].dataFeedId] : i \in 1..Len(docs)}
  IN {LET d == docs[FirstIndex(docs, id.signerAddress, id.dataFeedId)]
      IN [_id |-> id,
          timestampMilliseconds |-> d.timestampMilliseconds,
          signature |-> d.signature,
          dataPoints |-> d.dataPoints,
          dataServiceId |-> d.dataServiceId,
          dataFeedId |-> d.dataFeedId,
          isSignatureValid |-> d.isSignatureValid] : id \in ids}

\* $sort { timestampMilliseconds: -1 }: $group emits its groups in no
\* defined order and the sort leaves ties in any order, so every ordering
\* of the groups with non-increasing timestamps is a possible result.
SortByTimestampDesc(groups) ==
  {s \in [1..Cardinality(groups) -> groups] :
     /\ \A i, j \in DOMAIN s : i # j => s[i] # s[j]
     /\ \A i, j \in DOMAIN s :
          i < j => s[i].timestampMilliseconds >= s[j].timestampMilliseconds}

\* DataPackage.aggregate of Strategy A: every reply it can give on docs
AggregateMostRecent(docs, dataServiceId, timestamp, nowMs) ==
  SortByTimestampDesc(GroupBySignerAndFeed(
    SelectSeq(docs, LAMBDA d :
      MatchByTimestampOrLatest(d, dataServiceId, timestamp, nowMs))))

\* the "Parse DB response" loop of Strategy A
RECURSIVE ParseMostRecent(_, _, _)
ParseMostRecent(grouped, i, fetched) ==
  IF i > Len(grouped) THEN Returned(fetched)
  ELSE LET g == grouped[i]
           entry == [timestampMilliseconds |-> g.timestampMilliseconds,
                     signature |-> g.signature,
                     dataPoints |-> g.dataPoints,
                     dataServiceId |-> g.dataServiceId,
                     isSignatureValid |-> g.isSignatureValid,
                     dataFeedId |-> g._id.dataFeedId,
                     signerAddress |-> g._id.signerAddress]
           pushed == PushEntry(fetched, g._id.dataFeedId, entry)
       IN IF pushed.threw THEN pushed
          ELSE ParseMostRecent(grouped, i + 1, pushed.value)

\* what the call does with the aggregation's reply
ByTimestampOrLatestOutcome(grouped) ==
  IF Len(grouped) = 0
    THEN Rejected(EMPTY_DATA_PACKAGE_RESPONSE_ERROR_CODE)
    ELSE Settled(ParseMostRecent(grouped, 1, EmptyResponse))

\* every outcome of the call when its aggregation runs on docs
getDataPackagesFromDbByTimestampOrLatest(docs, dataServiceId, timestamp, nowMs) ==
  {ByTimestampOrLatestOutcome(grouped) :
     grouped \in AggregateMostRecent(docs, dataServiceId, timestamp, nowMs)}

getDataPackagesByTimestamp(docs, dataServiceId, timestamp, nowMs) ==
  getDataPackagesFromDbByTimestampOrLatest(docs, dataServiceId, <<timestamp>>, nowMs)

----------------------------------------------------------------------------
(* Strategy B: getLatestDataPackagesFromDbWithSameTimestamp                *)

\* $match of the second pipeline
MatchLatest(doc, dataServiceId, nowMs) ==
  /\ doc.dataServiceId = dataServiceId
  /\ doc.timestampMilliseconds >= nowMs - maxAllowedTimestampDelay

\* $group by timestampMilliseconds: $count, and one $push array per field,
\* filled in pipeline order
GroupByTimestamp(docs) ==
  {LET members == SelectSeq(docs, LAMBDA d : d.timestampMilliseconds = t)
   IN [_id |-> [timestampMilliseconds |-> t],
       count |-> Len(members),
       signatures |-> [i \in 1..Len(members) |-> members[i].signature],
       dataPoints |-> [i \in 1..Len(members) |-> members[i].dataPoints],
       dataFeedIds |-> [i \in 1..Len(members) |-> members[i].dataFeedId],
       signerAddress |-> [i \in 1..Len(members) |-> members[i].signerAddress],
       isSignatureValid |-> [i \in 1..Len(members) |-> members[i].isSignatureValid]]
   : t \in {docs[i].timestampMilliseconds : i \in 1..Len(docs)}}

SortsBeforeTieAscending(g, h) ==
  \/ g.count > h.count
  \/ /\ g.count = h.count
     /\ g._id.timestampMilliseconds < h._id.timestampMilliseconds

\* $sort { count: -1, "_id.timestampMilliseconds": -1 }: g sorts before h
SortsBefore(g, h) ==
  \/ g.count > h.count
  \/ /\ g.count = h.count
     /\ g._id.timestampMilliseconds > h._id.timestampMilliseconds

\* $sort then $limit 1: the group that sorts before every other one (the
\* timestamps of two groups differ, so the order is total)
SortAndLimitOne(groups) ==
  IF groups = {} THEN <<>>
  ELSE <<CHOOSE g \in groups : \A h \in groups \ {g} : SortsBefore(g, h)>>

\* DataPackage.aggregate of Strategy B: its reply on docs
AggregateSameTimestamp(docs, dataServiceId, nowMs) ==
  SortAndLimitOne(GroupByTimestamp(
    SelectSeq(docs, LAMBDA d : MatchLatest(d, dataServiceId, nowMs))))

SignerCheckAgainstFeedId(signerAddress, fetchedPackagesForDataFeed) ==
  IF fetchedPackagesForDataFeed.kind = "undefined" THEN Returned(FALSE)
  ELSE IF fetchedPackagesForDataFeed.kind = "inherited" THEN Threw(TypeError)
  ELSE Returned(\E i \in 1..Len(fetchedPackagesForDataFeed.list) :
                  fetchedPackagesForDataFeed.list[i].dataFeedId = signerAddress)

\* !!fetchedPackagesForDataFeed && fetchedPackagesForDataFeed.some(...):
\* an inherited member is truthy and has no some()
isSignerAddressAlreadyInDbResponseForDataFeed(signerAddress, fetchedPackagesForDataFeed) ==
  IF fetchedPackagesForDataFeed.kind = "undefined" THEN Returned(FALSE)
  ELSE IF fetchedPackagesForDataFeed.kind = "inherited" THEN Threw(TypeError)
  ELSE Returned(\E i \in 1..Len(fetchedPackagesForDataFeed.list) :
                  fetchedPackagesForDataFeed.list[i].signerAddress = signerAddress)

\* the "Parse DB response" loop of Strategy B, from index i on (1-based)
RECURSIVE ParseSameTimestamp(_, _, _, _)
ParseSameTimestamp(group, dataServiceId, i, fetched) ==
  IF i > group.count THEN Returned(fetched)
  ELSE LET dataFeedId == group.dataFeedIds[i]
           signerAddress == group.signerAddress[i]
           entry == [timestampMilliseconds |-> group._id.timestampMilliseconds,
                     signature |-> group.signatures[i],
                     isSignatureValid |-> group.isSignatureValid[i],
                     dataPoints |-> group.dataPoints[i],
                     dataServiceId |-> dataServiceId,
                     dataFeedId |-> dataFeedId,
                     signerAddress |-> signerAddress]
           already == isSignerAddressAlreadyInDbResponseForDataFeed(
                        signerAddress, FetchedForDataFeed(fetched, dataFeedId))
           pushed == PushEntry(fetched, dataFeedId, entry)
       IN IF already.threw THEN already
          ELSE IF already.value
            THEN ParseSameTimestamp(group, dataServiceId, i + 1, fetched)
          ELSE IF pushed.threw THEN pushed
          ELSE ParseSameTimestamp(group, dataServiceId, i + 1, pushed.value)

\* for (let i = 0; i < count; i++) over the winning group
ParseWinningGroup(group, dataServiceId) ==
  ParseSameTimestamp(group, dataServiceId, 1, EmptyResponse)

\* what the call does with the aggregation's reply
SameTimestampOutcome(grouped, dataServiceId) ==
  IF Len(grouped) = 0
    THEN Rejected(EMPTY_DATA_PACKAGE_RESPONSE_ERROR_CODE)
    ELSE Settled(ParseWinningGroup(grouped[1], dataServiceId))

\* the outcome of the call when its aggregation runs on docs
getLatestDataPackagesFromDbWithSameTimestamp(docs, dataServiceId, nowMs) ==
  SameTimestampOutcome(AggregateSameTimestamp(docs, dataServiceId, nowMs),
                       dataServiceId)

----------------------------------------------------------------------------
(* Spec: one direct call of a query entry point                            *)

\* pc: "none" no call, "called" the aggregation is sent, "executed" the
\* store has run it on its first `seen` documents and `reply` is on its
\* way, "settled" the reply is parsed and the promise has settled
NoCall == [op |-> "none", dataServiceId |-> "none", timestamp |-> <<>>,
           pc |-> "none", nowMs |-> 0, seen |-> 0, reply |-> <<>>]

Init ==
  /\ store = <<>>
  /\ now = QueryNow
  /\ call = NoCall
  /\ outcome = NoOutcome
  /\ cache = <<>>
  /\ inflight = <<>>
  /\ storeQueries = <<>>
  /\ callers = <<>>
  /\ broadcasters = <<>>
  /\ bcast = <<>>

\* a submitted package is persisted (the store sink's insert); documents
\* are never changed afterwards
PersistPackage(s) ==
  /\ Len(store) < MaxStore
  /\ store' = Append(store, Document(s, Len(store) + 1))
  /\ UNCHANGED <<now, queryVars, cacheVars, bcastVars>>

\* getDataPackagesFromDbByTimestampOrLatest(dataServiceId): the pipeline is
\* built with Date.now() and the call awaits the aggregation
CallLatest(dataServiceId) ==
  /\ call = NoCall
  /\ call' = [NoCall EXCEPT !.op = "latest", !.dataServiceId = dataServiceId,
                            !.pc = "called", !.nowMs = now]
  /\ UNCHANGED <<store, now, outcome, cacheVars, bcastVars>>

\* getDataPackagesByTimestamp(dataServiceId, timestamp)
CallByTimestamp(dataServiceId, timestamp) ==
  /\ call = NoCall
  /\ call' = [NoCall EXCEPT !.op = "byTimestamp", !.dataServiceId = dataServiceId,
                            !.timestamp = <<timestamp>>,
                            !.pc = "called", !.nowMs = now]
  /\ UNCHANGED <<store, now, outcome, cacheVars, bcastVars>>

\* getLatestDataPackagesFromDbWithSameTimestamp(dataServiceId)
CallSameTimestamp(dataServiceId) ==
  /\ call = NoCall
  /\ call' = [NoCall EXCEPT !.op = "sameTimestamp", !.dataServiceId = dataServiceId,
                            !.pc = "called", !.nowMs = now]
  /\ UNCHANGED <<store, now, outcome, cacheVars, bcastVars>>

\* every reply the aggregation of the call can give on docs
AggregateReplies(c, docs) ==
  IF c.op = "sameTimestamp"
    THEN {AggregateSameTimestamp(docs, c.dataServiceId, c.nowMs)}
    ELSE AggregateMostRecent(docs, c.dataServiceId, c.timestamp, c.nowMs)

\* the store runs the aggregation on the documents it holds
ExecuteAggregate ==
  /\ call.pc = "called"
  /\ \E reply \in AggregateReplies(call, store) :
       call' = [call EXCEPT !.pc = "executed", !.seen = Len(store),
                            !.reply = reply]
  /\ UNCHANGED <<store, now, outcome, cacheVars, bcastVars>>

\* the reply arrives: empty check, "Parse DB response", return
SettleCall ==
  /\ call.pc = "executed"
  /\ call' = [call EXCEPT !.pc = "settled"]
  /\ outcome' = IF call.op = "sameTimestamp"
                  THEN SameTimestampOutcome(call.reply, call.dataServiceId)
                  ELSE ByTimestampOrLatestOutcome(call.reply)
  /\ UNCHANGED <<store, now, cacheVars, bcastVars>>

Next ==
  \/ \E s \in Submissions : PersistPackage(s)
  \/ \E dataServiceId \in Services : CallLatest(dataServiceId)
  \/ \E dataServiceId \in Services, timestamp \in Times :
       CallByTimestamp(dataServiceId, timestamp)
  \/ \E dataServiceId \in Services : CallSameTimestamp(dataServiceId)
  \/ ExecuteAggregate
  \/ SettleCall

Spec == Init /\ [][Next]_vars

----------------------------------------------------------------------------
(* Properties of the query strategies (checked under Spec)                 *)

\* the documents the aggregation of the call ran on, by position in the
\* store (documents are only ever added, at the end)
SeenDocs == 1..call.seen

\* the documents of a partition inside the window
\* [now - maxAllowedTimestampDelay, ...) when the aggregation ran
WindowDocs(dataServiceId) ==
  {i \in SeenDocs :
     /\ store[i].dataServiceId = dataServiceId
     /\ store[i].timestampMilliseconds >= call.nowMs - maxAllowedTimestampDelay}

\* the documents of a partition at exactly timestamp t
ExactDocs(dataServiceId, t) ==
  {i \in SeenDocs :
     /\ store[i].dataServiceId = dataServiceId
     /\ store[i].timestampMilliseconds = t}

\* the documents the call's contract makes eligible
EligibleDocs ==
  IF call.op = "byTimestamp"
    THEN ExactDocs(call.dataServiceId, call.timestamp[1])
    ELSE WindowDocs(call.dataServiceId)

EntriesOf(response) ==
  UNION {{response[f][i] : i \in 1..Len(response[f])} : f \in DOMAIN response}

SignersIn(entries) == {entries[i].signerAddress : i \in 1..Len(entries)}

\* members of the timestamp group t among the window's documents
GroupSize(dataServiceId, t) ==
  Cardinality({i \in WindowDocs(dataServiceId) : store[i].timestampMilliseconds = t})

\* C1: Strategy A without a timestamp: for every (signerAddress, dataFeedId)
\* pair of the response, the returned entry's timestamp is >= the timestamp
\* of every eligible stored package of that pair, whatever the store's
\* iteration order.
C1_LatestPerSignerAndFeed ==
  (call.op = "latest" /\ outcome.status = "resolved") =>
    \A e \in EntriesOf(outcome.value) :
      \A i \in WindowDocs(call.dataServiceId) :
        (/\ store[i].signerAddress = e.signerAddress
         /\ store[i].dataFeedId = e.dataFeedId)
        => e.timestampMilliseconds >= store[i].timestampMilliseconds

\* C2: Strategy B: the response is not empty, all its entries carry the
\* timestamp T of one group of the window, no timestamp group of the window
\* has more members than the group of T, and every group with as many
\* members has a timestamp <= T.
C2_MaxCountLatestTie ==
  (call.op = "sameTimestamp" /\ outcome.status = "resolved") =>
    /\ EntriesOf(outcome.value) # {}
    /\ \A e \in EntriesOf(outcome.value) :
         LET T == e.timestampMilliseconds
             n == GroupSize(call.dataServiceId, T)
         IN /\ n >= 1
            /\ \A i \in WindowDocs(call.dataServiceId) :
                 LET t == store[i].timestampMilliseconds
                     m == GroupSize(call.dataServiceId, t)
                 IN n >= m /\ (m = n => t <= T)

\* Strategy B answered while another, older timestamp group of the window
\* had as many members as the returned one
C2_Witness ==
  /\ call.op = "sameTimestamp"
  /\ outcome.status = "resolved"
  /\ \E e \in EntriesOf(outcome.value) :
       \E i \in WindowDocs(call.dataServiceId) :
         /\ store[i].timestampMilliseconds < e.timestampMilliseconds
         /\ GroupSize(call.dataServiceId, store[i].timestampMilliseconds)
              = GroupSize(call.dataServiceId, e.timestampMilliseconds)

\* C3: in every response of either strategy (with or without an explicit
\* timestamp), no two entries of one feed's sequence have the same
\* signerAddress.
C3_UniqueSignersPerFeed ==
  outcome.status = "resolved" =>
    \A f \in DOMAIN outcome.value :
      \A i, j \in 1..Len(outcome.value[f]) :
        i # j => outcome.value[f][i].signerAddress # outcome.value[f][j].signerAddress

\* Strategy B answered from a winning group in which one signer submitted
\* two packages for the same feed
C3_Witness ==
  /\ call.op = "sameTimestamp"
  /\ outcome.status = "resolved"
  /\ \E e \in EntriesOf(outcome.value) :
       \E i, j \in WindowDocs(call.dataServiceId) :
         /\ i # j
         /\ store[i].timestampMilliseconds = e.timestampMilliseconds
         /\ store[j].timestampMilliseconds = e.timestampMilliseconds
         /\ store[i].signerAddress = e.signerAddress
         /\ store[j].signerAddress = e.signerAddress
         /\ store[i].dataFeedId = e.dataFeedId
         /\ store[j].dataFeedId = e.dataFeedId

\* C5: a call on a partition with no eligible stored package (none in the
\* window, or none at the requested exact timestamp) fails with
\* EMPTY_DATA_PACKAGE_RESPONSE_ERROR_CODE, and no call resolves with a
\* response without feeds.
C5_EmptyPartitionFails ==
  call.pc = "settled" =>
    /\ EligibleDocs = {} =>
         outcome = Rejected(EMPTY_DATA_PACKAGE_RESPONSE_ERROR_CODE)
    /\ outcome.status = "resolved" => DOMAIN outcome.value # {}

\* C9: getDataPackagesByTimestamp(dataServiceId, t): every package of the
\* response has timestampMilliseconds = t, for every t including 0.
C9_ExactTimestampOnly ==
  (call.op = "byTimestamp" /\ outcome.status = "resolved") =>
    \A e \in EntriesOf(outcome.value) :
      e.timestampMilliseconds = call.timestamp[1]

\* all documents of the partition's window share one timestamp
SingleTimestamp(dataServiceId) ==
  /\ WindowDocs(dataServiceId) # {}
  /\ \A i, j \in WindowDocs(dataServiceId) :
       store[i].timestampMilliseconds = store[j].timestampMilliseconds

\* one entry per distinct signer of each feed of the window, and no other
OneEntryPerSigner(response, dataServiceId) ==
  /\ DOMAIN response =
       {store[i].dataFeedId : i \in WindowDocs(dataServiceId)}
  /\ \A f \in DOMAIN response :
       LET signers == {store[i].signerAddress :
                         i \in {j \in WindowDocs(dataServiceId) :
                                  store[j].dataFeedId = f}}
       IN /\ SignersIn(response[f]) = signers
          /\ Len(response[f]) = Cardinality(signers)

SameFeedsAndEntries(r1, r2) ==
  /\ DOMAIN r1 = DOMAIN r2
  /\ \A f \in DOMAIN r1 :
       /\ Len(r1[f]) = Len(r2[f])
       /\ {r1[f][i] : i \in 1..Len(r1[f])} = {r2[f][i] : i \in 1..Len(r2[f])}

\* C10: when all eligible packages of the partition share one timestamp,
\* the strategy that was called resolves with exactly one entry per
\* distinct signer under each feed, and the other strategy, on the same
\* documents, resolves with the same feeds and the same entries under each.
C10_StrategiesAgreeOnSingleTimestamp ==
  (/\ call.op \in {"latest", "sameTimestamp"}
   /\ call.pc = "settled"
   /\ SingleTimestamp(call.dataServiceId)) =>
    /\ outcome.status = "resolved"
    /\ OneEntryPerSigner(outcome.value, call.dataServiceId)
    /\ call.op = "latest" =>
         LET b == getLatestDataPackagesFromDbWithSameTimestamp(
                    SubSeq(store, 1, call.seen), call.dataServiceId, call.nowMs)
         IN /\ b.status = "resolved"
            /\ SameFeedsAndEntries(outcome.value, b.value)
    /\ call.op = "sameTimestamp" =>
         \A a \in getDataPackagesFromDbByTimestampOrLatest(
                    SubSeq(store, 1, call.seen), call.dataServiceId, <<>>,
                    call.nowMs) :
           /\ a.status = "resolved"
           /\ SameFeedsAndEntries(outcome.value, a.value)

----------------------------------------------------------------------------
(* SpecCache: the two memoized queries                                     *)

MaxCacheStore == 2
MaxNow == 2
Callers == {"c1", "c2"}

\* config.dataPackagesTTL, in the model's time unit
dataPackagesTTL == 1

\* "latest" is getLatestDataPackagesWithCache, "sameTimestamp" is
\* getLatestDataPackagesWithSameTimestampWithCache
MemoizedFns == {"latest", "sameTimestamp"}

\* the submissions persisted while the cached queries run
CacheSubmissions ==
  {Submission("svc1", "0xA", <<"ETH">>, t, "0xA") : t \in {0, 2}}
  \cup {Submission("svc2", "0xA", <<"ETH">>, 2, "0xA"),
        Submission("svc1", "0xA", <<"constructor">>, 2, "0xA")}

\* ttl: config.dataPackagesTTL
MemoizeTtl == dataPackagesTTL

\* functionToMemoize of each memoized query, up to its await: every reply
\* its aggregation can give on docs, for a function that started at nowMs
MemoizedAggregate(fn, docs, dataServiceId, nowMs) ==
  IF fn = "latest"
    THEN AggregateMostRecent(docs, dataServiceId, <<>>, nowMs)
    ELSE {AggregateSameTimestamp(docs, dataServiceId, nowMs)}

\* functionToMemoize after its await: what it does with the reply
MemoizedOutcome(fn, reply, dataServiceId) ==
  IF fn = "latest"
    THEN ByTimestampOrLatestOutcome(reply)
    ELSE SameTimestampOutcome(reply, dataServiceId)

\* every outcome of functionToMemoize when its aggregation runs on docs
FunctionToMemoize(fn, docs, dataServiceId, nowMs) ==
  IF fn = "latest"
    THEN getDataPackagesFromDbByTimestampOrLatest(docs, dataServiceId, <<>>, nowMs)
    ELSE {getLatestDataPackagesFromDbWithSameTimestamp(docs, dataServiceId, nowMs)}

NoEntry == [outcome |-> NoOutcome, filledAt |-> 0, expiresAt |-> 0]

\* pc: "called" the aggregation is sent, "executed" the store has run it on
\* its first `seen` documents and `reply` is on its way
NoFlight == [id |-> 0, startedAt |-> 0, pc |-> "none", seen |-> 0, reply |-> <<>>]

Idle == [state |-> "idle", fn |-> "none", key |-> "none", query |-> 0,
         outcome |-> NoOutcome]

IsFreshWithoutExpiry(entry, nowMs) == entry # NoEntry

\* lazy expiry, checked on access
IsFresh(entry, nowMs) == entry # NoEntry /\ nowMs <= entry.expiresAt

LookupWithoutSingleFlight(entry, flight, nowMs) ==
  IF IsFresh(entry, nowMs) THEN "hit" ELSE "miss"

\* what an access does: answer from the entry, await the computation in
\* flight for the key, or start one
MemoizeLookup(entry, flight, nowMs) ==
  IF IsFresh(entry, nowMs) THEN "hit"
  ELSE IF flight # NoFlight THEN "join"
  ELSE "miss"

\* the entry of the key once its computation has settled with result: filled
\* on success, left as it was on failure
EntryAfter(previous, result, nowMs) ==
  IF result.status = "resolved"
    THEN [outcome |-> result, filledAt |-> nowMs, expiresAt |-> nowMs + MemoizeTtl]
    ELSE previous

InitCache ==
  /\ store = <<>>
  /\ now = 0
  /\ call = NoCall
  /\ outcome = NoOutcome
  /\ cache = [fn \in MemoizedFns |-> [k \in Services |-> NoEntry]]
  /\ inflight = [fn \in MemoizedFns |-> [k \in Services |-> NoFlight]]
  /\ storeQueries = [fn \in MemoizedFns |-> [k \in Services |-> 0]]
  /\ callers = [c \in Callers |-> Idle]
  /\ broadcasters = <<>>
  /\ bcast = <<>>

\* a submitted package is persisted (the store sink's insert)
SavePackage(s) ==
  /\ Len(store) < MaxCacheStore
  /\ store' = Append(store, Document(s, Len(store) + 1))
  /\ UNCHANGED <<now, queryVars, cacheVars, bcastVars>>

\* time passes
Tick ==
  /\ now < MaxNow
  /\ now' = now + 1
  /\ UNCHANGED <<store, queryVars, cacheVars, bcastVars>>

\* caller c calls the memoized query fn with dataServiceId; on a miss
\* functionToMemoize starts: it builds its pipeline with Date.now() and
\* awaits the aggregation
CachedCall(c, fn, dataServiceId) ==
  /\ callers[c].state = "idle"
  /\ LET entry == cache[fn][dataServiceId]
         flight == inflight[fn][dataServiceId]
         action == MemoizeLookup(entry, flight, now)
         id == storeQueries[fn][dataServiceId] + 1
     IN CASE action = "hit" ->
               /\ callers' = [callers EXCEPT ![c] =
                    [state |-> "returned", fn |-> fn, key |-> dataServiceId,
                     query |-> 0, outcome |-> entry.outcome]]
               /\ UNCHANGED <<inflight, storeQueries>>
          [] action = "join" ->
               /\ callers' = [callers EXCEPT ![c] =
                    [state |-> "waiting", fn |-> fn, key |-> dataServiceId,
                     query |-> flight.id, outcome |-> NoOutcome]]
               /\ UNCHANGED <<inflight, storeQueries>>
          [] action = "miss" ->
               /\ storeQueries' = [storeQueries EXCEPT ![fn][dataServiceId] = id]
               /\ inflight' = [inflight EXCEPT ![fn][dataServiceId] =
                    [NoFlight EXCEPT !.id = id, !.startedAt = now,
                                     !.pc = "called"]]
               /\ callers' = [callers EXCEPT ![c] =
                    [state |-> "waiting", fn |-> fn, key |-> dataServiceId,
                     query |-> id, outcome |-> NoOutcome]]
  /\ UNCHANGED <<store, now, cache, queryVars, bcastVars>>

\* the store runs the aggregation in flight for (fn, dataServiceId) on the
\* documents it holds
ExecuteQuery(fn, dataServiceId) ==
  /\ inflight[fn][dataServiceId].pc = "called"
  /\ \E reply \in MemoizedAggregate(fn, store, dataServiceId,
                                    inflight[fn][dataServiceId].startedAt) :
       inflight' = [inflight EXCEPT ![fn][dataServiceId] =
                      [@ EXCEPT !.pc = "executed", !.seen = Len(store),
                                !.reply = reply]]
  /\ UNCHANGED <<store, now, cache, storeQueries, callers, queryVars, bcastVars>>

\* the reply arrives, functionToMemoize settles; every caller awaiting the
\* computation gets its outcome
SettleQuery(fn, dataServiceId) ==
  /\ inflight[fn][dataServiceId].pc = "executed"
  /\ LET result == MemoizedOutcome(fn, inflight[fn][dataServiceId].reply,
                                   dataServiceId)
     IN /\ cache' = [cache EXCEPT ![fn][dataServiceId] = EntryAfter(@, result, now)]
        /\ callers' = [c \in Callers |->
             IF /\ callers[c].state = "waiting"
                /\ callers[c].fn = fn
                /\ callers[c].key = dataServiceId
                /\ callers[c].query = inflight[fn][dataServiceId].id
               THEN [callers[c] EXCEPT !.state = "returned", !.outcome = result]
               ELSE callers[c]]
  /\ inflight' = [inflight EXCEPT ![fn][dataServiceId] = NoFlight]
  /\ UNCHANGED <<store, now, storeQueries, queryVars, bcastVars>>

NextCache ==
  \/ \E s \in CacheSubmissions : SavePackage(s)
  \/ Tick
  \/ \E c \in Callers, fn \in MemoizedFns, dataServiceId \in Services :
       CachedCall(c, fn, dataServiceId)
  \/ \E fn \in MemoizedFns, dataServiceId \in Services :
       ExecuteQuery(fn, dataServiceId)
  \/ \E fn \in MemoizedFns, dataServiceId \in Services :
       SettleQuery(fn, dataServiceId)

SpecCache == InitCache /\ [][NextCache]_vars

----------------------------------------------------------------------------
(* Properties of the memoized queries (checked under SpecCache)            *)

\* the step is a call of the memoized query fn with key k by caller c
IsCallStep(c, fn, k) ==
  /\ callers[c].state = "idle"
  /\ callers'[c].state # "idle"
  /\ callers'[c].fn = fn
  /\ callers'[c].key = k

\* the step settles the computation in flight for (fn, k)
IsCompletionStep(fn, k) ==
  /\ inflight[fn][k] # NoFlight
  /\ inflight'[fn][k] = NoFlight

Awaits(c, fn, k) ==
  /\ callers[c].state = "waiting"
  /\ callers[c].fn = fn
  /\ callers[c].key = k

ReturnedFrom(c, fn, k, query) ==
  /\ callers[c].state = "returned"
  /\ callers[c].fn = fn
  /\ callers[c].key = k
  /\ callers[c].query = query

C4_Step ==
  \A fn \in MemoizedFns, k \in Services :
    \A c1, c2 \in Callers :
      c1 # c2 =>
        /\ (Awaits(c1, fn, k) /\ IsCallStep(c2, fn, k)) =>
             /\ storeQueries'[fn][k] = storeQueries[fn][k]
             /\ callers'[c2].state = "waiting"
             /\ callers'[c2].query = callers[c1].query
             /\ callers'[c1] = callers[c1]
        /\ (Awaits(c1, fn, k) /\ Awaits(c2, fn, k) /\ callers'[c1].state # "waiting") =>
             /\ callers'[c1].state = "returned"
             /\ callers'[c2].state = "returned"
             /\ callers'[c1].outcome = callers'[c2].outcome
             /\ callers'[c1].outcome.status \in {"resolved", "rejected"}

\* C4: a call of a memoized query issued while another call of the same
\* query with the same dataServiceId is still awaiting its result issues no
\* store query and awaits the same computation; the two calls return in the
\* same step, with the same outcome (a result or a failure).
C4_SingleFlight == [][C4_Step]_vars

\* two calls of the same memoized query and key have returned the outcome of
\* the only store query issued for that key
C4_Witness ==
  \E fn \in MemoizedFns, k \in Services :
    /\ storeQueries[fn][k] = 1
    /\ \A c \in Callers : ReturnedFrom(c, fn, k, 1)
    /\ \A c \in Callers : callers[c].outcome.status = "resolved"

\* the last store query issued for (fn, k) has failed
LastQueryFailed(fn, k) ==
  /\ inflight[fn][k] = NoFlight
  /\ \E c \in Callers :
       /\ ReturnedFrom(c, fn, k, storeQueries[fn][k])
       /\ callers[c].outcome.status = "rejected"

C7_Step ==
  \A fn \in MemoizedFns, k \in Services :
    /\ cache'[fn][k].outcome.status # "rejected"
    /\ \A c \in Callers :
         /\ (callers'[c].state = "returned" /\ callers'[c].outcome.status = "rejected")
              => callers'[c].query # 0
         /\ (LastQueryFailed(fn, k) /\ IsCallStep(c, fn, k)) =>
              /\ storeQueries'[fn][k] = storeQueries[fn][k] + 1
              /\ callers'[c].state = "waiting"
              /\ callers'[c].query = storeQueries'[fn][k]
         /\ (/\ IsCompletionStep(fn, k)
             /\ Awaits(c, fn, k)
             /\ inflight[fn][k].id > 1
             /\ cache[fn][k] = NoEntry
             /\ \E i \in 1..inflight[fn][k].seen :
                  /\ store[i].dataServiceId = k
                  /\ store[i].timestampMilliseconds >=
                       inflight[fn][k].startedAt - maxAllowedTimestampDelay) =>
              /\ callers'[c].outcome.status = "resolved"
              /\ DOMAIN callers'[c].outcome.value # {}

\* C7: a failure is never stored in the cache and never returned without a
\* store query; after the last store query of a key has failed, the next
\* call for that key issues a new store query and awaits it; and when every
\* earlier store query of the key has failed, a store query that ran while
\* eligible packages were stored returns them.
C7_FailureNotCached == [][C7_Step]_vars

C8_Step ==
  \A fn \in MemoizedFns, k \in Services, c \in Callers :
    /\ (/\ IsCallStep(c, fn, k)
        /\ cache[fn][k] # NoEntry
        /\ now - cache[fn][k].filledAt > dataPackagesTTL) =>
         /\ callers'[c].state = "waiting"
         /\ inflight[fn][k] = NoFlight =>
              /\ storeQueries'[fn][k] = storeQueries[fn][k] + 1
              /\ callers'[c].query = storeQueries'[fn][k]
    /\ (IsCompletionStep(fn, k) /\ Awaits(c, fn, k)) =>
         /\ callers'[c].query = inflight[fn][k].id
         /\ callers'[c].outcome \in
              FunctionToMemoize(fn, SubSeq(store, 1, inflight[fn][k].seen), k,
                                inflight[fn][k].startedAt)

\* C8: a call issued more than dataPackagesTTL after the last successful
\* fill of its key is not answered from the cache: it awaits a store query,
\* a new one unless one is already in flight, and gets the outcome of that
\* query on the documents the store held when it ran the query.
C8_ExpiredEntryRefetched == [][C8_Step]_vars

\* a first call filled the cache; a call after expiry ran a second store
\* query and returned a response the first one did not have
C8_Witness ==
  \E fn \in MemoizedFns, k \in Services, c1, c2 \in Callers :
    /\ ReturnedFrom(c1, fn, k, 1)
    /\ callers[c1].outcome.status = "resolved"
    /\ ReturnedFrom(c2, fn, k, 2)
    /\ callers[c2].outcome.status = "resolved"
    /\ callers[c2].outcome # callers[c1].outcome
    /\ now - cache[fn][k].filledAt = 0

----------------------------------------------------------------------------
(* SpecBroadcast: broadcast(dataPackagesToSave, nodeEvmAddress)            *)

SinkNames == {"mongo", "streamr"}

\* the constructor pushes the sinks that were injected, in this order
BroadcasterConfigs ==
  {<<>>, <<"mongo">>, <<"streamr">>, <<"mongo", "streamr">>}

BroadcastInputs ==
  {<<Document(s, 1)>> : s \in CacheSubmissions}

NotCalled == [state |-> "notCalled", dataPackages |-> <<>>, nodeEvmAddress |-> "none"]

NoBroadcast ==
  [pc |-> "idle", dataPackagesToSave |-> <<>>, nodeEvmAddress |-> "none",
   savePromises |-> [b \in SinkNames |-> NotCalled]]

Configured == {broadcasters[i] : i \in 1..Len(broadcasters)}

\* position of sink b in this.broadcasters
IndexOf(b) == CHOOSE i \in 1..Len(broadcasters) : broadcasters[i] = b

\* this.broadcasters.map(b => b.broadcast(...)) when the sinks of `throwing`
\* throw instead of returning a promise: the sinks are called in order, and
\* the first one that throws ends the map
MapOverBroadcasters(dataPackagesToSave, nodeEvmAddress, throwing) ==
  [b \in SinkNames |->
     IF b \notin Configured THEN NotCalled
     ELSE IF \E t \in throwing \cap Configured : IndexOf(t) < IndexOf(b)
       THEN NotCalled
     ELSE [state |-> IF b \in throwing THEN "threw" ELSE "pending",
           dataPackages |-> dataPackagesToSave,
           nodeEvmAddress |-> nodeEvmAddress]]

\* Promise.allSettled(savePromises): pending while one of them is, then
\* fulfilled whatever their outcomes
PromiseAllSettled(promises) ==
  IF \E b \in Configured : promises[b].state = "pending" THEN "pending"
  ELSE "resolved"

\* how broadcast() stands: an exception of the map rejects it, otherwise it
\* awaits Promise.allSettled
BroadcastPromise(promises) ==
  IF \E b \in Configured : promises[b].state = "threw" THEN "rejected"
  ELSE PromiseAllSettled(promises)

InitBroadcast ==
  /\ store = <<>>
  /\ now = 0
  /\ call = NoCall
  /\ outcome = NoOutcome
  /\ cache = <<>>
  /\ inflight = <<>>
  /\ storeQueries = <<>>
  /\ callers = <<>>
  /\ broadcasters \in BroadcasterConfigs
  /\ bcast = NoBroadcast

\* broadcast() is called and runs up to its await (or to the exception)
Broadcast(dataPackagesToSave, nodeEvmAddress, throwing) ==
  /\ bcast.pc = "idle"
  /\ bcast' = [pc |-> "awaiting",
               dataPackagesToSave |-> dataPackagesToSave,
               nodeEvmAddress |-> nodeEvmAddress,
               savePromises |-> MapOverBroadcasters(dataPackagesToSave,
                                                    nodeEvmAddress, throwing)]
  /\ UNCHANGED <<store, now, queryVars, cacheVars, broadcasters>>

\* the promise of sink b settles
SinkSettles(b, result) ==
  /\ bcast.savePromises[b].state = "pending"
  /\ bcast' = [bcast EXCEPT !.savePromises[b].state = result]
  /\ UNCHANGED <<store, now, queryVars, cacheVars, broadcasters>>

\* the promise of broadcast() settles
BroadcastSettles ==
  /\ bcast.pc = "awaiting"
  /\ BroadcastPromise(bcast.savePromises) # "pending"
  /\ bcast' = [bcast EXCEPT !.pc = BroadcastPromise(bcast.savePromises)]
  /\ UNCHANGED <<store, now, queryVars, cacheVars, broadcasters>>

NextBroadcast ==
  \/ \E dataPackagesToSave \in BroadcastInputs, nodeEvmAddress \in Signers,
        throwing \in SUBSET SinkNames :
       Broadcast(dataPackagesToSave, nodeEvmAddress, throwing)
  \/ \E b \in SinkNames, result \in {"fulfilled", "rejected"} :
       SinkSettles(b, result)
  \/ BroadcastSettles

SpecBroadcast == InitBroadcast /\ [][NextBroadcast]_vars

\* C6: broadcast() never rejects; once it has been called every configured
\* sink has been called with the call's packages and node address, whatever
\* the other sinks do (reject their promise, or throw); and it has resolved
\* only when every sink has settled.
C6_BroadcastIsolatesSinks ==
  /\ bcast.pc # "rejected"
  /\ bcast.pc # "idle" =>
       \A b \in Configured :
         /\ bcast.savePromises[b].state # "notCalled"
         /\ bcast.savePromises[b].dataPackages = bcast.dataPackagesToSave
         /\ bcast.savePromises[b].nodeEvmAddress = bcast.nodeEvmAddress
  /\ bcast.pc = "resolved" =>
       \A b \in Configured :
         bcast.savePromises[b].state \in {"fulfilled", "rejected"}

====
